---- MODULE Spec2Model ----
(***************************************************************************)
(* Model of src/script.py, class NSEGainerPredictor: the parsing of the    *)
(* NSE top-gainer snapshot, the indicator calculation of                   *)
(* analyze_stock_strength and its helpers, the scoring rule of             *)
(* _predict_will_stay_up, the shortlist of select_safe_stocks and the      *)
(* pipeline of run_complete_analysis.                                      *)
(*                                                                         *)
(* Numbers.  Prices, volumes and percentages are integers.  A quotient the *)
(* code computes in floating point (position_in_range, rsi, volume_ratio,  *)
(* support_distance_pct) is kept as an exact fraction [num, den], den > 0, *)
(* and compared by cross-multiplication.  confidence is kept in hundredths *)
(* of a percent (50 + score * 0.45 is 5000 + 45 * score hundredths).       *)
(*                                                                         *)
(* Rounding.  An integer price stands for a decimal price (217 for 2.17),  *)
(* whose binary float is inexact.  Away from a tie the rounding error      *)
(* cannot change a comparison and is left out.  Where the two sides of a   *)
(* comparison of analyze_stock_strength's range block are equal in exact   *)
(* arithmetic, the floats fall either way: the outcome is a choice fp      *)
(* among FloatRoundings(current_data), made anew at every call.            *)
(*                                                                         *)
(* Dictionaries.  A Python dict is a function whose DOMAIN is the set of   *)
(* keys that are present; d.get(k, default) is Get(d, k, default).         *)
(***************************************************************************)
EXTENDS Integers, Sequences, FiniteSets, TLC

VARIABLES
    pc,              \* position of the run / of the operation under study
    quote,           \* the snapshot row handed to analyze_stock_strength
    yf_first,        \* what yfinance answers to the history fetch of analyze_stock_strength
    yf_second,       \* what yfinance answers to the history fetch of _analyze_volume
    analysis,        \* the dict analyze_stock_strength / _predict_will_stay_up works on
    prediction,      \* (will_stay_up, confidence, score_details) of _predict_will_stay_up
    nse_response,    \* what nse.get_top_gainers returned in this run
    top_gainers,     \* the DataFrame of get_top_gainers_from_nse, a sequence of rows
    all_analysis,    \* the list analyze_all_gainers builds / select_safe_stocks reads
    safe_stocks,     \* the shortlist of select_safe_stocks
    report,          \* what generate_final_predictions was called with
    calls            \* how often each collaborator or stage has been invoked in this run

vars == <<pc, quote, yf_first, yf_second, analysis, prediction,
          nse_response, top_gainers, all_analysis, safe_stocks, report, calls>>

-----------------------------------------------------------------------------
(* Helpers: dicts, fractions, sequences *)

EmptyDict == [k \in {} |-> 0]

Get(d, k, default) == IF k \in DOMAIN d THEN d[k] ELSE default

Update(d, e) == [k \in (DOMAIN d) \cup (DOMAIN e) |-> IF k \in DOMAIN e THEN e[k] ELSE d[k]]

Put(d, k, v) == [j \in (DOMAIN d) \cup {k} |-> IF j = k THEN v ELSE d[j]]

Min(a, b) == IF a <= b THEN a ELSE b

Frac(n, d) == [num |-> n, den |-> d]

FracGt(f, n) == f.num > n * f.den

FracLt(f, n) == f.num < n * f.den

RECURSIVE SumSeq(_)
SumSeq(s) == IF s = <<>> THEN 0 ELSE Head(s) + SumSeq(Tail(s))

TailN(s, n) == IF Len(s) <= n THEN s ELSE SubSeq(s, Len(s) - n + 1, Len(s))

HeadN(s, n) == IF Len(s) <= n THEN s ELSE SubSeq(s, 1, n)

MinOf(S) == CHOOSE x \in S : \A y \in S : x <= y

MaxOf(S) == CHOOSE x \in S : \A y \in S : x >= y

Column(df, name) == [i \in 1..Len(df) |-> df[i][name]]

KeyGreater(a, b) == a[1] > b[1] \/ (a[1] = b[1] /\ a[2] > b[2])

InsertDesc(i, sorted, keys) ==
    LET j == Cardinality({ p \in 1..Len(sorted) : ~KeyGreater(keys[i], keys[sorted[p]]) })
    IN  SubSeq(sorted, 1, j) \o <<i>> \o SubSeq(sorted, j + 1, Len(sorted))

SortedDesc(s, keys) ==
    LET upto[k \in 0..Len(s)] == IF k = 0 THEN <<>> ELSE InsertDesc(k, upto[k - 1], keys)
    IN  [p \in 1..Len(s) |-> s[upto[Len(s)][p]]]

Num(n) == [t |-> "num", v |-> n]

Str(n) == [t |-> "str", v |-> n]

BadStr == [t |-> "badstr", v |-> 0]

-----------------------------------------------------------------------------
(* _predict_will_stay_up *)

PositionTierCumulative(a) ==
    IF "position_in_range" \in DOMAIN a
    THEN (IF FracGt(a["position_in_range"], 80) THEN 15 ELSE 0)
         + (IF FracGt(a["position_in_range"], 60) THEN 10 ELSE 0)
         + (IF FracGt(a["position_in_range"], 40) THEN 5 ELSE 0)
    ELSE 0

PositionTier(a) ==
    IF "position_in_range" \in DOMAIN a
    THEN IF FracGt(a["position_in_range"], 80) THEN 15
         ELSE IF FracGt(a["position_in_range"], 60) THEN 10
         ELSE IF FracGt(a["position_in_range"], 40) THEN 5
         ELSE 0
    ELSE 0

CurrentScore(a) ==
    Min(PositionTier(a)
        + (IF Get(a, "near_high", FALSE) THEN 10 ELSE 0)
        + (IF Get(a, "far_from_low", FALSE) THEN 5 ELSE 0), 30)

TrendScoreUptrendFifteen(a) ==
    Min((IF Get(a, "above_ma5", FALSE) THEN 5 ELSE 0)
        + (IF Get(a, "above_ma10", FALSE) THEN 5 ELSE 0)
        + (IF Get(a, "above_ma20", FALSE) THEN 5 ELSE 0)
        + (IF Get(a, "uptrend_5d", FALSE) THEN 15 ELSE 0)
        + (IF Get(a, "rsi_safe", FALSE) THEN 5 ELSE 0), 30)

TrendScore(a) ==
    Min((IF Get(a, "above_ma5", FALSE) THEN 5 ELSE 0)
        + (IF Get(a, "above_ma10", FALSE) THEN 5 ELSE 0)
        + (IF Get(a, "above_ma20", FALSE) THEN 5 ELSE 0)
        + (IF Get(a, "uptrend_5d", FALSE) THEN 10 ELSE 0)
        + (IF Get(a, "rsi_safe", FALSE) THEN 5 ELSE 0), 30)

SupportScore(a) ==
    Min((IF Get(a, "above_support", FALSE) THEN 10 ELSE 0)
        + (IF Get(a, "high_volume", FALSE) THEN 5 ELSE 0)
        + (IF Get(a, "above_open", FALSE) THEN 3 ELSE 0)
        + (IF Get(a, "above_prev_close", FALSE) THEN 2 ELSE 0), 20)

GainScoreStrictBounds(a) ==
    LET gain_pct == Get(a, "gain_percent", 0)
    IN  Min(IF 2 < gain_pct /\ gain_pct < 8 THEN 15
            ELSE IF gain_pct > 8 THEN 5
            ELSE IF gain_pct > 0 THEN 10
            ELSE 0, 20)

GainScore(a) ==
    LET gain_pct == Get(a, "gain_percent", 0)
    IN  Min(IF 2 <= gain_pct /\ gain_pct <= 8 THEN 15
            ELSE IF gain_pct > 8 THEN 5
            ELSE IF gain_pct > 0 THEN 10
            ELSE 0, 20)

ConfidenceSignSlip(score) == Min(9500, 5000 - score * 45)

Confidence(score) == Min(9500, 5000 + score * 45)

WillStayUpAbsentCountsTrue(a, score) ==
    /\ score >= 60
    /\ Get(a, "above_support", TRUE)
    /\ FracGt(Get(a, "position_in_range", Frac(0, 1)), 50)

WillStayUp(a, score) ==
    /\ score >= 60
    /\ Get(a, "above_support", FALSE)
    /\ FracGt(Get(a, "position_in_range", Frac(0, 1)), 50)

predict_will_stay_up_AddsCurrentTwice(a) ==
    LET current_score == CurrentScore(a)
        trend_score   == TrendScore(a)
        support_score == SupportScore(a)
        gain_score    == GainScore(a)
        score         == current_score + current_score + support_score + gain_score
    IN  [will_stay_up  |-> WillStayUp(a, score),
         confidence    |-> Confidence(score),
         score_details |-> [score |-> score, Curr |-> current_score, Trend |-> trend_score,
                            Supp |-> support_score, Gain |-> gain_score]]

predict_will_stay_up(a) ==
    LET current_score == CurrentScore(a)
        trend_score   == TrendScore(a)
        support_score == SupportScore(a)
        gain_score    == GainScore(a)
        score         == current_score + trend_score + support_score + gain_score
    IN  [will_stay_up  |-> WillStayUp(a, score),
         confidence    |-> Confidence(score),
         score_details |-> [score |-> score, Curr |-> current_score, Trend |-> trend_score,
                            Supp |-> support_score, Gain |-> gain_score]]

-----------------------------------------------------------------------------
(* _get_historical_data, _analyze_trend, _calculate_support_resistance,    *)
(* _analyze_volume.  A history is a sequence of bars [Close, Low, High,    *)
(* Volume], most recent last.  A yfinance answer is [raises, ns, plain]:   *)
(* whether the call raises, the bars for SYMBOL.NS and the bars for SYMBOL.*)
(* None is the empty history: the function never returns an empty frame.   *)

None == <<>>

get_historical_data(yf) ==
    IF yf.raises THEN None
    ELSE LET hist == IF yf.ns = <<>> THEN yf.plain ELSE yf.ns
         IN  IF hist # <<>> THEN hist ELSE None

RollingMeanAbovePartialWindow(hist_data, window, current_price) ==
    current_price * Min(window, Len(hist_data)) > SumSeq(TailN(Column(hist_data, "Close"), window))

RollingMeanAbove(hist_data, window, current_price) ==
    IF Len(hist_data) >= window
    THEN current_price * window > SumSeq(TailN(Column(hist_data, "Close"), window))
    ELSE FALSE

Uptrend5d(hist_data) ==
    LET prices_5d == TailN(Column(hist_data, "Close"), 5)
    IN  \A i \in 2..5 : prices_5d[i] >= prices_5d[i - 1]

Delta(hist_data, i) == IF i = 1 THEN 0 ELSE hist_data[i].Close - hist_data[i - 1].Close

Rsi(hist_data) ==
    LET n    == Len(hist_data)
        up   == [i \in 1..14 |-> IF Delta(hist_data, n - 14 + i) > 0 THEN Delta(hist_data, n - 14 + i) ELSE 0]
        down == [i \in 1..14 |-> IF Delta(hist_data, n - 14 + i) < 0 THEN 0 - Delta(hist_data, n - 14 + i) ELSE 0]
        gain == SumSeq(up)
        loss == SumSeq(down)
    IN  IF loss # 0 THEN Frac(100 * gain, gain + loss) ELSE Frac(0, 1)

analyze_trend(hist_data, current_price) ==
    IF Len(hist_data) < 5 THEN EmptyDict
    ELSE LET mas == [above_ma5   |-> RollingMeanAbove(hist_data, 5, current_price),
                     above_ma10  |-> RollingMeanAbove(hist_data, 10, current_price),
                     above_ma20  |-> RollingMeanAbove(hist_data, 20, current_price),
                     uptrend_5d  |-> Uptrend5d(hist_data)]
         IN  IF Len(hist_data) >= 14
             THEN Update(mas, [rsi      |-> Rsi(hist_data),
                               rsi_safe |-> FracGt(Rsi(hist_data), 30) /\ FracLt(Rsi(hist_data), 70)])
             ELSE mas

calculate_support_resistance(hist_data) ==
    IF Len(hist_data) < 10 THEN EmptyDict
    ELSE LET last10 == TailN(hist_data, 10)
         IN  [support_level    |-> MinOf({ last10[i].Low : i \in 1..Len(last10) }),
              resistance_level |-> MaxOf({ last10[i].High : i \in 1..Len(last10) })]

analyze_volume(current_volume, yf) ==
    LET hist_data == get_historical_data(yf)
    IN  IF hist_data # None /\ Len(hist_data) >= 5
        THEN LET sum_volume_5d == SumSeq(TailN(Column(hist_data, "Volume"), 5))
             IN  IF sum_volume_5d > 0
                 THEN [volume_ratio |-> Frac(current_volume * 5, sum_volume_5d),
                       high_volume  |-> current_volume * 10 > 3 * sum_volume_5d]
                 ELSE EmptyDict
        ELSE EmptyDict

-----------------------------------------------------------------------------
(* analyze_stock_strength.  current_data is a row of the top-gainer frame: *)
(* its numeric columns are numbers, open_price is the raw value of the     *)
(* feed, [t, v] with t = "num" for a number and t = "str" for a string.    *)

QuotePart(symbol, current_data) ==
    [symbol        |-> symbol,
     gain_percent  |-> current_data.gain_percent,
     current_price |-> current_data.current_price,
     today_high    |-> current_data.today_high,
     today_low     |-> current_data.today_low,
     volume        |-> current_data.volume]

\* The values position_in_range is compared with: 70 here, 40, 60 and 80 by the scorer, and
\* 90, where distance_to_high meets a tenth of the range.
Thresholds == {40, 60, 70, 80, 90}

PositionTie(current_data) ==
    LET price_range       == current_data.today_high - current_data.today_low
        distance_from_low == current_data.current_price - current_data.today_low
    IN  /\ price_range > 0
        /\ \E t \in Thresholds : distance_from_low * 100 = t * price_range

NearHighTie(current_data) ==
    LET price_range      == current_data.today_high - current_data.today_low
        distance_to_high == current_data.today_high - current_data.current_price
    IN  /\ price_range > 0
        /\ distance_to_high * 10 = price_range

FloatRoundings(current_data) ==
    { fp \in [position : {0 - 1, 0, 1}, near_high : BOOLEAN] :
        /\ fp.position # 0 => PositionTie(current_data)
        /\ fp.near_high => NearHighTie(current_data) }

PositionInRange(distance_from_low, price_range, fp) ==
    Frac(distance_from_low * 100 * 1000 + fp.position, price_range * 1000)

RangePartUnguarded(current_data, fp) ==
    LET price_range       == current_data.today_high - current_data.today_low
        distance_from_low == current_data.current_price - current_data.today_low
        distance_to_high  == current_data.today_high - current_data.current_price
        position_in_range == PositionInRange(distance_from_low, price_range, fp)
    IN  [position_in_range |-> position_in_range,
         near_high         |-> distance_to_high * 10 < price_range \/ fp.near_high,
         far_from_low      |-> FracGt(position_in_range, 70)]

RangePart(current_data, fp) ==
    LET price_range       == current_data.today_high - current_data.today_low
        distance_from_low == current_data.current_price - current_data.today_low
        distance_to_high  == current_data.today_high - current_data.current_price
        position_in_range == PositionInRange(distance_from_low, price_range, fp)
    IN  IF price_range > 0
        THEN [position_in_range |-> position_in_range,
              near_high         |-> distance_to_high * 10 < price_range \/ fp.near_high,
              far_from_low      |-> FracGt(position_in_range, 70)]
        ELSE EmptyDict

GapRaises(current_data) ==
    /\ current_data.prev_close > 0
    /\ current_data.open_price.t # "num"

GapPart(current_data) ==
    IF current_data.prev_close > 0
    THEN LET above_prev_close == [above_prev_close |-> current_data.current_price > current_data.prev_close]
         IN  IF current_data.open_price.v > 0
             THEN Update(above_prev_close,
                         [above_open |-> current_data.current_price > current_data.open_price.v])
             ELSE above_prev_close
    ELSE EmptyDict

HistoryPart(current_data, yf) ==
    LET hist_data == get_historical_data(yf)
    IN  IF hist_data # None
        THEN LET found == Update(analyze_trend(hist_data, current_data.current_price),
                                 calculate_support_resistance(hist_data))
             IN  IF "support_level" \in DOMAIN found
                 THEN Update(found,
                        [above_support        |-> current_data.current_price > found["support_level"],
                         support_distance_pct |-> Frac((current_data.current_price - found["support_level"]) * 100,
                                                      found["support_level"])])
                 ELSE found
        ELSE EmptyDict

Indicators(symbol, current_data, first, second, fp) ==
    Update(Update(Update(Update(QuotePart(symbol, current_data),
                                RangePart(current_data, fp)),
                         GapPart(current_data)),
                  HistoryPart(current_data, first)),
           analyze_volume(current_data.volume, second))

analyze_stock_strength(symbol, current_data, first, second, fp) ==
    LET found == Indicators(symbol, current_data, first, second, fp)
    IN  Update(found, predict_will_stay_up(found))

-----------------------------------------------------------------------------
(* get_top_gainers_from_nse.  A record of the feed is a dict whose values  *)
(* are raw: Num(n) a number, Str(n) a string that float() reads as n after *)
(* the separators are removed, BadStr a string float() rejects.  The       *)
(* answer of nse.get_top_gainers is [raises, stocks]; stocks = <<>> stands *)
(* for both None and the empty list.                                       *)

StripUpper(text) ==
    CASE text = " infy " -> "INFY"
      [] text = "  "     -> ""
      [] OTHER           -> text

FloatRaises(raw) == raw.t = "badstr"

ToFloat(raw) == raw.v

ParseRaises(stock) ==
    \E key \in {"perChange", "ltp", "prev_price", "high_price", "low_price", "trade_quantity"} :
        key \in DOMAIN stock /\ FloatRaises(stock[key])

ParsedStock(stock) ==
    LET ltp == ToFloat(Get(stock, "ltp", Num(0)))
    IN  [symbol        |-> StripUpper(Get(stock, "symbol", "")),
         gain_percent  |-> ToFloat(Get(stock, "perChange", Num(0))),
         current_price |-> ltp,
         prev_close    |-> ToFloat(Get(stock, "prev_price", Num(0))),
         today_high    |-> ToFloat(Get(stock, "high_price", Num(ltp))),
         today_low     |-> ToFloat(Get(stock, "low_price", Num(ltp))),
         volume        |-> ToFloat(Get(stock, "trade_quantity", Num(0))),
         open_price    |-> Get(stock, "open_price", Num(ltp)),
         turnover      |-> Get(stock, "turnover", Num(0))]

IsIncludedIgnoresSymbol(stock) ==
    /\ ~ParseRaises(stock)
    /\ ParsedStock(stock).gain_percent > 0

IsIncluded(stock) ==
    /\ ~ParseRaises(stock)
    /\ ParsedStock(stock).gain_percent > 0
    /\ ParsedStock(stock).symbol # ""

ByGainPercent(df) == [i \in 1..Len(df) |-> <<df[i].gain_percent, 0>>]

parsed_stocks(stocks) ==
    LET kept == SelectSeq(stocks, IsIncluded)
    IN  [i \in 1..Len(kept) |-> ParsedStock(kept[i])]

get_top_gainers_from_nse(response, limit) ==
    IF response.raises \/ response.stocks = <<>> THEN <<>>
    ELSE LET df == parsed_stocks(response.stocks)
         IN  HeadN(SortedDesc(df, ByGainPercent(df)), limit)

-----------------------------------------------------------------------------
(* select_safe_stocks *)

ByConfidence(s) == [i \in 1..Len(s) |-> <<Get(s[i], "confidence", 0), 0>>]

ByConfidenceThenGain(s) ==
    [i \in 1..Len(s) |-> <<Get(s[i], "confidence", 0), Get(s[i], "gain_percent", 0)>>]

StayingUp(analysis_results) == SelectSeq(analysis_results, LAMBDA a : Get(a, "will_stay_up", FALSE))

select_safe_stocks_FallbackBelowThree(analysis_results) ==
    IF analysis_results = <<>> THEN <<>>
    ELSE LET passed == StayingUp(analysis_results)
             staying_up_stocks == IF Len(passed) < 3
                                  THEN HeadN(SortedDesc(analysis_results, ByConfidence(analysis_results)), 3)
                                  ELSE passed
         IN  HeadN(SortedDesc(staying_up_stocks, ByConfidenceThenGain(staying_up_stocks)), 5)

select_safe_stocks_NoTruncation(analysis_results) ==
    IF analysis_results = <<>> THEN <<>>
    ELSE LET passed == StayingUp(analysis_results)
             staying_up_stocks == IF passed = <<>>
                                  THEN HeadN(SortedDesc(analysis_results, ByConfidence(analysis_results)), 3)
                                  ELSE passed
         IN  SortedDesc(staying_up_stocks, ByConfidenceThenGain(staying_up_stocks))

select_safe_stocks_SortsByConfidenceOnly(analysis_results) ==
    IF analysis_results = <<>> THEN <<>>
    ELSE LET passed == StayingUp(analysis_results)
             staying_up_stocks == IF passed = <<>>
                                  THEN HeadN(SortedDesc(analysis_results, ByConfidence(analysis_results)), 3)
                                  ELSE passed
         IN  HeadN(SortedDesc(staying_up_stocks, ByConfidence(staying_up_stocks)), 5)

select_safe_stocks(analysis_results) ==
    IF analysis_results = <<>> THEN <<>>
    ELSE LET passed == StayingUp(analysis_results)
             staying_up_stocks == IF passed = <<>>
                                  THEN HeadN(SortedDesc(analysis_results, ByConfidence(analysis_results)), 3)
                                  ELSE passed
         IN  HeadN(SortedDesc(staying_up_stocks, ByConfidenceThenGain(staying_up_stocks)), 5)

-----------------------------------------------------------------------------
(* Values the variables hold while an operation is not under study *)

NoRow == EmptyDict

NoResponse == [raises |-> FALSE, stocks |-> <<>>]

NoReport == [rendered |-> FALSE, safe_stocks |-> <<>>, analyzed |-> 0]

NoYf == [raises |-> FALSE, ns |-> <<>>, plain |-> <<>>]

NoPrediction == EmptyDict

NoCalls == [nse |-> 0, analyze |-> 0, history |-> 0, select |-> 0, render |-> 0]

-----------------------------------------------------------------------------
(* Specification SpecScore: _predict_will_stay_up applied to an arbitrary  *)
(* IndicatorSet.  Every indicator key is absent or holds one of its values.*)

PositionValues == {Frac(0 - 10, 1), Frac(40, 1), Frac(50, 1), Frac(51, 1), Frac(60, 1), Frac(200, 3),
                   Frac(80, 1), Frac(81, 1), Frac(120, 1)}

GainValues == {0 - 3, 0, 1, 2, 8, 9}

TriStateKeys == {"near_high", "far_from_low", "above_support"}

FlagKeys == {"above_ma5", "above_ma10", "above_ma20", "uptrend_5d", "rsi_safe",
             "high_volume", "above_open", "above_prev_close"}

PositionChoices == {EmptyDict} \cup { [k \in {"position_in_range"} |-> v] : v \in PositionValues }

GainChoices == {EmptyDict} \cup { [k \in {"gain_percent"} |-> g] : g \in GainValues }

IndicatorSet(present, true, pos, gain) ==
    Update(Update([k \in present \cup true |-> (k \in true)], pos), gain)

InitScore ==
    /\ pc = "score_input"
    /\ \E present \in SUBSET TriStateKeys, true \in SUBSET (TriStateKeys \cup FlagKeys),
          pos \in PositionChoices, gain \in GainChoices :
            /\ true \cap TriStateKeys \subseteq present
            /\ analysis = IndicatorSet(present, true, pos, gain)
    /\ prediction = NoPrediction
    /\ quote = NoRow
    /\ yf_first = NoYf
    /\ yf_second = NoYf
    /\ nse_response = NoResponse
    /\ top_gainers = <<>>
    /\ all_analysis = <<>>
    /\ safe_stocks = <<>>
    /\ report = NoReport
    /\ calls = NoCalls

PredictWillStayUp ==
    /\ pc = "score_input"
    /\ prediction' = predict_will_stay_up(analysis)
    /\ pc' = "scored"
    /\ UNCHANGED <<quote, yf_first, yf_second, analysis, nse_response, top_gainers,
                   all_analysis, safe_stocks, report, calls>>

NextScore == PredictWillStayUp

SpecScore == InitScore /\ [][NextScore]_vars

Scored == pc = "scored"

Details == prediction.score_details

\* C1: whatever keys the IndicatorSet holds and whatever the percent change is, the
\* composite score is the sum of the four sub-scores and lies in 0..100, and the
\* sub-scores lie in 0..30 (position), 0..30 (trend), 0..20 (support/volume), 0..20 (gain).
C1_ScoreIsBoundedSum ==
    Scored =>
        /\ Details.score = Details.Curr + Details.Trend + Details.Supp + Details.Gain
        /\ Details.score \in 0..100
        /\ Details.Curr \in 0..30
        /\ Details.Trend \in 0..30
        /\ Details.Supp \in 0..20
        /\ Details.Gain \in 0..20

C1_Witness ==
    /\ Scored
    /\ Details.Curr = 30
    /\ Details.Trend = 30
    /\ Details.Supp = 20
    /\ Details.Gain = 15
    /\ Details.score = 95

\* C2: will_stay_up is true exactly when the composite score is at least 60, above_support
\* is present and true, and position_in_range is present and above 50; an absent key
\* counts as false.
C2_VerdictIffThreeConditions ==
    Scored =>
        (prediction.will_stay_up <=>
            /\ Details.score >= 60
            /\ "above_support" \in DOMAIN analysis
            /\ analysis["above_support"] = TRUE
            /\ "position_in_range" \in DOMAIN analysis
            /\ analysis["position_in_range"].num > 50 * analysis["position_in_range"].den)

C2_Witness ==
    /\ Scored
    /\ Details.score >= 60
    /\ "above_support" \notin DOMAIN analysis
    /\ "position_in_range" \in DOMAIN analysis
    /\ analysis["position_in_range"].num > 50 * analysis["position_in_range"].den
    /\ prediction.will_stay_up = FALSE

\* C3: confidence is min(95, 50 + 0.45 * score) (here in hundredths), lies in [50, 95], and
\* is monotonic: no lower score gives a higher confidence, no higher score a lower one.
C3_ConfidenceAffineMonotonic ==
    Scored =>
        /\ prediction.confidence =
              (IF 5000 + 45 * Details.score < 9500 THEN 5000 + 45 * Details.score ELSE 9500)
        /\ prediction.confidence >= 5000
        /\ prediction.confidence <= 9500
        /\ \A s \in 0..100 :
              /\ s <= Details.score => Confidence(s) <= prediction.confidence
              /\ s >= Details.score => Confidence(s) >= prediction.confidence

C3_Witness ==
    /\ Scored
    /\ Details.score = 40
    /\ prediction.confidence = 6800

Points(a, key, points) == IF key \in DOMAIN a /\ a[key] = TRUE THEN points ELSE 0

\* C13: the position sub-score is one tier of position_in_range (15 above 80, else 10 above
\* 60, else 5 above 40, else 0, and 0 when the key is absent), plus 10 if near_high is true,
\* plus 5 if far_from_low is true.
C13_PositionScoreOneTierPlusBonuses ==
    Scored =>
        LET present == "position_in_range" \in DOMAIN analysis
            above(t) == present /\ analysis["position_in_range"].num > t * analysis["position_in_range"].den
            tier == IF above(80) THEN 15 ELSE IF above(60) THEN 10 ELSE IF above(40) THEN 5 ELSE 0
        IN  Details.Curr = tier + Points(analysis, "near_high", 10) + Points(analysis, "far_from_low", 5)

C13_Witness ==
    /\ Scored
    /\ {"position_in_range", "near_high", "far_from_low"} \subseteq DOMAIN analysis
    /\ analysis["position_in_range"] = Frac(81, 1)
    /\ analysis["near_high"] = FALSE
    /\ analysis["far_from_low"] = TRUE
    /\ Details.Curr = 20

\* C14: the gain sub-score depends on percent_change alone: 15 for 2 <= percent_change <= 8,
\* 5 above 8, 10 strictly between 0 and 2, 0 at or below 0 or when it is missing; exactly one
\* case applies.
C14_GainScoreByPercentChange ==
    Scored =>
        LET missing == "gain_percent" \notin DOMAIN analysis
            cases == { c \in {"moderate", "high", "small", "none"} :
                         \/ c = "moderate" /\ ~missing /\ 2 <= analysis["gain_percent"] /\ analysis["gain_percent"] <= 8
                         \/ c = "high" /\ ~missing /\ analysis["gain_percent"] > 8
                         \/ c = "small" /\ ~missing /\ 0 < analysis["gain_percent"] /\ analysis["gain_percent"] < 2
                         \/ c = "none" /\ (missing \/ analysis["gain_percent"] <= 0) }
        IN  /\ Cardinality(cases) = 1
            /\ "moderate" \in cases => Details.Gain = 15
            /\ "high" \in cases => Details.Gain = 5
            /\ "small" \in cases => Details.Gain = 10
            /\ "none" \in cases => Details.Gain = 0

C14_Witness ==
    /\ Scored
    /\ "gain_percent" \in DOMAIN analysis
    /\ analysis["gain_percent"] = 8
    /\ Details.Gain = 15

\* C15: no bucket cap ever binds: each sub-score equals its uncapped point total, the gain
\* sub-score is at most 15, the composite score at most 95, and confidence is
\* 50 + 0.45 * score, at most 92.75, below the ceiling of 95.
C15_CapsNeverBind ==
    Scored =>
        /\ Details.Trend = Points(analysis, "above_ma5", 5) + Points(analysis, "above_ma10", 5)
                           + Points(analysis, "above_ma20", 5) + Points(analysis, "uptrend_5d", 10)
                           + Points(analysis, "rsi_safe", 5)
        /\ Details.Supp = Points(analysis, "above_support", 10) + Points(analysis, "high_volume", 5)
                          + Points(analysis, "above_open", 3) + Points(analysis, "above_prev_close", 2)
        /\ Details.Curr <= 30
        /\ Details.Gain <= 15
        /\ Details.score <= 95
        /\ prediction.confidence = 5000 + 45 * Details.score
        /\ prediction.confidence <= 9275

C15_Witness ==
    /\ Scored
    /\ Details.score = 95
    /\ Details.Gain = 15
    /\ prediction.confidence = 9275
    /\ prediction.will_stay_up

-----------------------------------------------------------------------------
(* Specification SpecAnalyze: analyze_stock_strength applied to one row    *)
(* and the two yfinance answers it consumes (its own fetch, and the fetch  *)
(* _analyze_volume makes for the same symbol).                             *)

CloseOf(shape, n, i) ==
    CASE shape = "rising"  -> 80 + i
      [] shape = "falling" -> 140 - i
      [] shape = "choppy"  -> IF i <= n - 5 THEN 100 + 3 * (i % 2) ELSE 100 + (i - (n - 5))

MakeHistory(n, shape, volume) ==
    [i \in 1..n |-> [Close  |-> CloseOf(shape, n, i),
                     Low    |-> CloseOf(shape, n, i) - 2,
                     High   |-> CloseOf(shape, n, i) + 2,
                     Volume |-> volume]]

HistoryLengths == {3, 5, 10, 14, 20}

Histories ==
    { MakeHistory(n, shape, 100) : n \in HistoryLengths, shape \in {"rising", "falling", "choppy"} }
    \cup { MakeHistory(n, "rising", 0) : n \in {5, 20} }

YfRaises == [raises |-> TRUE, ns |-> <<>>, plain |-> <<>>]

YfEmpty == [raises |-> FALSE, ns |-> <<>>, plain |-> <<>>]

YfAnswers ==
    {YfRaises, YfEmpty}
    \cup { [raises |-> FALSE, ns |-> h, plain |-> <<>>] : h \in Histories }
    \cup { [raises |-> FALSE, ns |-> <<>>, plain |-> MakeHistory(20, "choppy", 100)] }

DayRanges == {<<106, 99, 105>>, <<105, 105, 105>>, <<99, 106, 105>>, <<110, 100, 110>>, <<110, 100, 102>>,
              <<230, 100, 217>>, <<110, 100, 108>>}

Rows ==
    { [symbol        |-> "ABC",
       gain_percent  |-> gain,
       current_price |-> range[3],
       prev_close    |-> prev,
       today_high    |-> range[1],
       today_low     |-> range[2],
       volume        |-> volume,
       open_price    |-> open,
       turnover      |-> Num(0)] :
        gain \in {1, 5, 9}, range \in DayRanges, prev \in {0, 98},
        volume \in {100, 200}, open \in {Num(0), Num(100), Str(100)} }

InitAnalyze ==
    /\ pc = "analyze_input"
    /\ quote \in Rows
    /\ yf_first \in YfAnswers
    /\ yf_second \in YfAnswers
    /\ analysis = EmptyDict
    /\ prediction = NoPrediction
    /\ nse_response = NoResponse
    /\ top_gainers = <<>>
    /\ all_analysis = <<>>
    /\ safe_stocks = <<>>
    /\ report = NoReport
    /\ calls = NoCalls

AnalyzeStockStrength ==
    /\ pc = "analyze_input"
    /\ IF GapRaises(quote)
       THEN /\ pc' = "raised"
            /\ UNCHANGED analysis
       ELSE /\ pc' = "analyzed"
            /\ \E fp \in FloatRoundings(quote) :
                  analysis' = analyze_stock_strength(quote.symbol, quote, yf_first, yf_second, fp)
    /\ UNCHANGED <<quote, yf_first, yf_second, prediction, nse_response, top_gainers,
                   all_analysis, safe_stocks, report, calls>>

NextAnalyze == AnalyzeStockStrength

SpecAnalyze == InitAnalyze /\ [][NextAnalyze]_vars

Analyzed == pc = "analyzed"

\* C4: a quote whose day_high is not above its day_low gets no position_in_range, near_high
\* or far_from_low key (nothing is divided by the range); its position sub-score is 0 and
\* its verdict is false.
C4_DegenerateRangeOmitsKeys ==
    (Analyzed /\ quote.today_high <= quote.today_low) =>
        /\ DOMAIN analysis \cap {"position_in_range", "near_high", "far_from_low"} = {}
        /\ analysis["score_details"].Curr = 0
        /\ analysis["will_stay_up"] = FALSE

C4_Witness ==
    /\ Analyzed
    /\ quote.today_high = quote.today_low
    /\ analysis["score_details"].score >= 60
    /\ analysis["above_support"] = TRUE
    /\ "position_in_range" \notin DOMAIN analysis
    /\ analysis["will_stay_up"] = FALSE

HistoryKeys == {"above_ma5", "above_ma10", "above_ma20", "uptrend_5d", "rsi", "rsi_safe",
                "support_level", "resistance_level", "above_support", "support_distance_pct",
                "volume_ratio", "high_volume"}

Unavailable(yf) == Len(get_historical_data(yf)) < 5

\* C9: when the history fetch of analyze_stock_strength fails, comes back empty or holds
\* fewer than 5 bars, the candidate is still scored, no trend, RSI, support/resistance or
\* volume key is present, the trend sub-score is 0, the verdict is false, and the outcome
\* is the one of a failed fetch whichever of the three cases it was.
C9_UnavailableHistoryTreatedAlike ==
    (Analyzed /\ Unavailable(yf_first)) =>
        /\ DOMAIN analysis \cap HistoryKeys = {}
        /\ analysis["score_details"].Trend = 0
        /\ analysis["will_stay_up"] = FALSE
        /\ \E fp \in FloatRoundings(quote) :
              analysis = analyze_stock_strength(quote.symbol, quote, YfRaises, YfRaises, fp)

\* The same statement when the fetch of _analyze_volume is unavailable as well.
BothFetchesUnavailableTreatedAlike ==
    (Analyzed /\ Unavailable(yf_first) /\ Unavailable(yf_second)) =>
        /\ DOMAIN analysis \cap HistoryKeys = {}
        /\ analysis["score_details"].Trend = 0
        /\ analysis["will_stay_up"] = FALSE
        /\ \E fp \in FloatRoundings(quote) :
              analysis = analyze_stock_strength(quote.symbol, quote, YfRaises, YfRaises, fp)

\* C11: above_open is present exactly when open_price > 0 and above_prev_close exactly when
\* prev_close > 0, each then comparing last_price with its own reference price; neither key
\* is omitted because the other reference price is not positive.
C11_GapKeysIndependent ==
    Analyzed =>
        /\ ("above_open" \in DOMAIN analysis) <=> (quote.open_price.v > 0)
        /\ ("above_open" \in DOMAIN analysis) =>
              (analysis["above_open"] <=> (quote.current_price > quote.open_price.v))
        /\ ("above_prev_close" \in DOMAIN analysis) <=> (quote.prev_close > 0)
        /\ ("above_prev_close" \in DOMAIN analysis) =>
              (analysis["above_prev_close"] <=> (quote.current_price > quote.prev_close))

FirstHistory == get_historical_data(yf_first)

\* C12 as stated: above_ma5, above_ma10, above_ma20 are present only with at least 5, 10, 20
\* bars of history.
C12_MovingAverageKeyNeedsFullWindow ==
    Analyzed =>
        /\ ("above_ma5" \in DOMAIN analysis) => Len(FirstHistory) >= 5
        /\ ("above_ma10" \in DOMAIN analysis) => Len(FirstHistory) >= 10
        /\ ("above_ma20" \in DOMAIN analysis) => Len(FirstHistory) >= 20

\* C12 amended: the three keys are present together, exactly when the history holds at least
\* 5 bars; a key whose window of 5, 10, 20 bars is not fully populated is present with the
\* value false, and a key is true only if its window is fully populated.
C12_MovingAverageKeyFalseOnShortWindow ==
    Analyzed =>
        /\ \A key \in {"above_ma5", "above_ma10", "above_ma20"} :
              (key \in DOMAIN analysis) <=> (Len(FirstHistory) >= 5)
        /\ Len(FirstHistory) >= 5 =>
              /\ Len(FirstHistory) < 10 => analysis["above_ma10"] = FALSE
              /\ Len(FirstHistory) < 20 => analysis["above_ma20"] = FALSE

C12_Witness ==
    /\ Analyzed
    /\ Len(FirstHistory) = 5
    /\ analysis["above_ma5"] = TRUE
    /\ analysis["above_ma10"] = FALSE
    /\ analysis["above_ma20"] = FALSE


IsTrue(key) == key \in DOMAIN analysis /\ analysis[key] = TRUE

\* C16: in every IndicatorSet analyze_stock_strength produces, near_high true implies
\* position_in_range above 90, far_from_low true and a position sub-score of exactly 30;
\* far_from_low true implies position_in_range above 60; and the position sub-score is one
\* of 0, 5, 10, 15, 20, 30.
C16_NearHighImpliesAboveNinety ==
    Analyzed =>
        /\ IsTrue("near_high") =>
              /\ FracGt(analysis["position_in_range"], 90)
              /\ IsTrue("far_from_low")
              /\ analysis["score_details"].Curr = 30
        /\ IsTrue("far_from_low") => FracGt(analysis["position_in_range"], 60)
        /\ analysis["score_details"].Curr \in {0, 5, 10, 15, 20, 30}

\* What is left of it when the floats round at a tie: near_high true still comes with
\* far_from_low true and a position sub-score of 30, which is never 25.
PositionScoreNeverTwentyFive ==
    Analyzed =>
        /\ IsTrue("near_high") =>
              /\ FracGt(analysis["position_in_range"], 80)
              /\ IsTrue("far_from_low")
              /\ analysis["score_details"].Curr = 30
        /\ IsTrue("far_from_low") => FracGt(analysis["position_in_range"], 60)
        /\ analysis["score_details"].Curr \in {0, 5, 10, 15, 20, 30}

-----------------------------------------------------------------------------
(* Specification SpecSelect: select_safe_stocks applied to an arbitrary    *)
(* list of scored candidates.  A candidate's symbol tells its place in the *)
(* input; its verdict, confidence and gain come from CandidateKinds.       *)

MaxCandidates == 6

SymbolNames == <<"S1", "S2", "S3", "S4", "S5", "S6", "S7", "S8">>

CandidateKinds ==
    { [will_stay_up |-> TRUE,  confidence |-> 8600, gain_percent |-> 5],
      [will_stay_up |-> TRUE,  confidence |-> 8600, gain_percent |-> 3],
      [will_stay_up |-> TRUE,  confidence |-> 7700, gain_percent |-> 5],
      [will_stay_up |-> FALSE, confidence |-> 8600, gain_percent |-> 3],
      [will_stay_up |-> FALSE, confidence |-> 6800, gain_percent |-> 5],
      [will_stay_up |-> FALSE, confidence |-> 6800, gain_percent |-> 3] }

Candidates(kinds) == [i \in 1..Len(kinds) |-> Put(kinds[i], "symbol", SymbolNames[i])]

InitSelect ==
    /\ pc = "select_input"
    /\ \E n \in 0..MaxCandidates : \E kinds \in [1..n -> CandidateKinds] :
          all_analysis = Candidates(kinds)
    /\ safe_stocks = <<>>
    /\ quote = NoRow
    /\ yf_first = NoYf
    /\ yf_second = NoYf
    /\ analysis = EmptyDict
    /\ prediction = NoPrediction
    /\ nse_response = NoResponse
    /\ top_gainers = <<>>
    /\ report = NoReport
    /\ calls = NoCalls

SelectSafeStocks ==
    /\ pc = "select_input"
    /\ safe_stocks' = select_safe_stocks(all_analysis)
    /\ pc' = "selected"
    /\ UNCHANGED <<quote, yf_first, yf_second, analysis, prediction, nse_response, top_gainers,
                   all_analysis, report, calls>>

NextSelect == SelectSafeStocks

SpecSelect == InitSelect /\ [][NextSelect]_vars

Selected == pc = "selected"

Range(s) == { s[i] : i \in 1..Len(s) }

AnyStaysUp(s) == \E i \in 1..Len(s) : s[i]["will_stay_up"]

\* C5: the shortlist is the fallback (the 3 candidates of highest confidence, or all of them
\* when there are fewer) exactly when no input candidate has will_stay_up = true; when some
\* candidate has it, every shortlisted candidate has will_stay_up = true.
C5_FallbackIffNoneStaysUp ==
    Selected =>
        IF AnyStaysUp(all_analysis)
        THEN \A j \in 1..Len(safe_stocks) : safe_stocks[j]["will_stay_up"]
        ELSE /\ Len(safe_stocks) = Min(3, Len(all_analysis))
             /\ Range(safe_stocks) \subseteq Range(all_analysis)
             /\ \A x \in Range(safe_stocks) : \A y \in Range(all_analysis) \ Range(safe_stocks) :
                    x["confidence"] >= y["confidence"]

C5_Witness ==
    /\ Selected
    /\ ~AnyStaysUp(all_analysis)
    /\ Len(all_analysis) = 5
    /\ Len(safe_stocks) = 3
    /\ \E y \in Range(all_analysis) \ Range(safe_stocks) : y["confidence"] = 8600

\* C6: the shortlist has at most 5 entries, at most 3 when no candidate stays up, holds only
\* candidates of the input, each at most once, and is empty exactly when the input is empty.
C6_ShortlistBounded ==
    Selected =>
        /\ Len(safe_stocks) <= 5
        /\ ~AnyStaysUp(all_analysis) => Len(safe_stocks) <= 3
        /\ Range(safe_stocks) \subseteq Range(all_analysis)
        /\ Cardinality(Range(safe_stocks)) = Len(safe_stocks)
        /\ (safe_stocks = <<>>) <=> (all_analysis = <<>>)

C6_Witness ==
    /\ Selected
    /\ Len(StayingUp(all_analysis)) = 6
    /\ Len(safe_stocks) = 5

\* C7: adjacent shortlist entries are in descending order of (confidence, percent change):
\* the earlier has the higher confidence, or the same confidence and a gain at least as high.
C7_ShortlistOrdered ==
    Selected =>
        \A j \in 1..(Len(safe_stocks) - 1) :
            \/ safe_stocks[j]["confidence"] > safe_stocks[j + 1]["confidence"]
            \/ /\ safe_stocks[j]["confidence"] = safe_stocks[j + 1]["confidence"]
               /\ safe_stocks[j]["gain_percent"] >= safe_stocks[j + 1]["gain_percent"]

C7_Witness ==
    /\ Selected
    /\ ~AnyStaysUp(all_analysis)
    /\ Len(safe_stocks) = 3
    /\ safe_stocks[1]["confidence"] > safe_stocks[2]["confidence"]
    /\ safe_stocks[2]["confidence"] = safe_stocks[3]["confidence"]
    /\ safe_stocks[2]["gain_percent"] > safe_stocks[3]["gain_percent"]
    /\ safe_stocks[1]["symbol"] = "S3"
    /\ safe_stocks[2]["symbol"] = "S2"
    /\ safe_stocks[3]["symbol"] = "S1"

-----------------------------------------------------------------------------
(* Specification Spec: run_complete_analysis, from the snapshot fetch to   *)
(* the report.  pc = "crashed" is an exception leaving the method.         *)

MaxSnapshot == 2

Limit == 15

RawStocks ==
    { [symbol |-> "TCS", perChange |-> Num(5), ltp |-> Num(105), prev_price |-> Num(98),
       high_price |-> Num(106), low_price |-> Num(99), trade_quantity |-> Num(200),
       open_price |-> Num(100), turnover |-> Num(7)],
      [symbol |-> " infy ", perChange |-> Str(9), ltp |-> Str(110), prev_price |-> Str(100),
       high_price |-> Str(110), low_price |-> Str(100), trade_quantity |-> Str(100)],
      [symbol |-> "  ", perChange |-> Num(4), ltp |-> Num(105), prev_price |-> Num(98),
       high_price |-> Num(106), low_price |-> Num(99), trade_quantity |-> Num(200),
       open_price |-> Num(100)],
      [symbol |-> "SBIN", perChange |-> Num(3), ltp |-> Num(105),
       high_price |-> Num(106), low_price |-> Num(99), trade_quantity |-> Num(200),
       open_price |-> Num(100)],
      [symbol |-> "ITC", perChange |-> Num(2), ltp |-> Num(105), prev_price |-> Num(98),
       trade_quantity |-> Num(100)],
      [symbol |-> "ONGC", perChange |-> Num(0 - 1), ltp |-> Num(105), prev_price |-> Num(106),
       high_price |-> Num(106), low_price |-> Num(99), trade_quantity |-> Num(200)],
      [symbol |-> "WIPRO", perChange |-> Num(7), ltp |-> BadStr, prev_price |-> Num(98)],
      [symbol |-> "HDFC", perChange |-> Num(6), ltp |-> Num(105), prev_price |-> Num(98),
       high_price |-> Num(106), low_price |-> Num(99), trade_quantity |-> Num(200),
       open_price |-> Str(100)] }

NseResponses ==
    {[raises |-> TRUE, stocks |-> <<>>]}
    \cup { [raises |-> FALSE, stocks |-> stocks] :
             stocks \in UNION { [1..n -> RawStocks] : n \in 0..MaxSnapshot } }

YfSamples ==
    { YfRaises,
      [raises |-> FALSE, ns |-> MakeHistory(3, "rising", 100), plain |-> <<>>],
      [raises |-> FALSE, ns |-> MakeHistory(20, "choppy", 100), plain |-> <<>>],
      [raises |-> FALSE, ns |-> <<>>, plain |-> MakeHistory(20, "falling", 100)] }

Init ==
    /\ pc = "start"
    /\ nse_response = NoResponse
    /\ top_gainers = <<>>
    /\ all_analysis = <<>>
    /\ safe_stocks = <<>>
    /\ report = NoReport
    /\ calls = NoCalls
    /\ quote = NoRow
    /\ yf_first = NoYf
    /\ yf_second = NoYf
    /\ analysis = EmptyDict
    /\ prediction = NoPrediction

AfterSnapshotAlwaysAnalyze(df) == "analyze"

AfterSnapshot(df) == IF df = <<>> THEN "done" ELSE "analyze"

GetTopGainers ==
    /\ pc = "start"
    /\ \E response \in NseResponses :
          /\ nse_response' = response
          /\ top_gainers' = get_top_gainers_from_nse(response, Limit)
          /\ pc' = AfterSnapshot(get_top_gainers_from_nse(response, Limit))
    /\ calls' = [calls EXCEPT !.nse = @ + 1]
    /\ UNCHANGED <<quote, yf_first, yf_second, analysis, prediction, all_analysis, safe_stocks, report>>

AnalyzeNextGainer ==
    /\ pc = "analyze"
    /\ Len(all_analysis) < Len(top_gainers)
    /\ LET row == top_gainers[Len(all_analysis) + 1]
       IN  IF GapRaises(row)
           THEN /\ pc' = "crashed"
                /\ calls' = [calls EXCEPT !.analyze = @ + 1]
                /\ UNCHANGED all_analysis
           ELSE /\ \E first \in YfSamples, second \in YfSamples, fp \in FloatRoundings(row) :
                      all_analysis' = Append(all_analysis,
                                             analyze_stock_strength(row.symbol, row, first, second, fp))
                /\ calls' = [calls EXCEPT !.analyze = @ + 1, !.history = @ + 2]
                /\ UNCHANGED pc
    /\ UNCHANGED <<quote, yf_first, yf_second, analysis, prediction, nse_response, top_gainers,
                   safe_stocks, report>>

SelectFromAll ==
    /\ pc = "analyze"
    /\ Len(all_analysis) = Len(top_gainers)
    /\ IF all_analysis = <<>>
       THEN /\ pc' = "done"
            /\ UNCHANGED <<safe_stocks, calls>>
       ELSE /\ safe_stocks' = select_safe_stocks(all_analysis)
            /\ calls' = [calls EXCEPT !.select = @ + 1]
            /\ pc' = "render"
    /\ UNCHANGED <<quote, yf_first, yf_second, analysis, prediction, nse_response, top_gainers,
                   all_analysis, report>>

GenerateFinalPredictions ==
    /\ pc = "render"
    /\ report' = [rendered |-> TRUE, safe_stocks |-> safe_stocks, analyzed |-> Len(all_analysis)]
    /\ calls' = [calls EXCEPT !.render = @ + 1]
    /\ pc' = "done"
    /\ UNCHANGED <<quote, yf_first, yf_second, analysis, prediction, nse_response, top_gainers,
                   all_analysis, safe_stocks>>

Next ==
    \/ GetTopGainers
    \/ AnalyzeNextGainer
    \/ SelectFromAll
    \/ GenerateFinalPredictions

Spec == Init /\ [][Next]_vars

Symbols(s) == { s[i]["symbol"] : i \in 1..Len(s) }

Usable(stock) ==
    /\ ~ParseRaises(stock)
    /\ ToFloat(Get(stock, "perChange", Num(0))) > 0
    /\ StripUpper(Get(stock, "symbol", "")) # ""

C10_EmptyUniverseEndsRunAndStagesInOrder ==
    /\ (calls.nse > 0 /\ top_gainers = <<>>) =>
          /\ pc = "done"
          /\ calls.analyze = 0
          /\ calls.history = 0
          /\ calls.select = 0
          /\ calls.render = 0
          /\ all_analysis = <<>>
          /\ ~report.rendered
    /\ (calls.analyze > 0 \/ all_analysis # <<>>) => calls.nse = 1
    /\ calls.select > 0 =>
          /\ calls.select = 1
          /\ calls.analyze = Len(top_gainers)
          /\ Len(all_analysis) = Len(top_gainers)
    /\ calls.render > 0 =>
          /\ calls.render = 1
          /\ calls.select = 1
          /\ report.safe_stocks = safe_stocks
    /\ report.rendered <=> calls.render > 0

C10_Witness ==
    /\ pc = "done"
    /\ ~nse_response.raises
    /\ Len(nse_response.stocks) = 2
    /\ top_gainers = <<>>
    /\ calls = [nse |-> 1, analyze |-> 0, history |-> 0, select |-> 0, render |-> 0]

====
